---- MODULE Spec2Model ----
(***************************************************************************)
(* The liquidation engine of zo-keeper (src/liquidator/liquidation.rs):    *)
(* liquidate() values one account, selects one branch and runs the branch  *)
(* executor (liquidate_perp_position, liquidate_spot_position, cancel,     *)
(* settle_bankruptcy) with its submission protocol.                        *)
(*                                                                         *)
(* The account's balances and positions (margin.collateral, pos_size) are  *)
(* bound when liquidate() is called.  Data the code reads later is bound   *)
(* where the code reads it: the resting orders when largest_open_order is  *)
(* called, the liquidator's own total collateral when an executor sizes    *)
(* its transfer, a serum registration when the hash maps are looked up,    *)
(* the outcome of retry_send / swap_asset when it returns.                 *)
(***************************************************************************)
EXTENDS Integers, Sequences, FiniteSets, TLC

(***************************************************************************)
(* Bounds of the model.                                                    *)
(***************************************************************************)
\* Number of collateral slots (zo_abi::MAX_COLLATERALS, scaled down).
MAX_COLLATERALS == 2
\* Number of perp markets (zo_abi::MAX_MARKETS, scaled down).
MAX_MARKETS == 2

Coll == 0 .. (MAX_COLLATERALS - 1)
Mkt == 0 .. (MAX_MARKETS - 1)

\* Raw collateral balances an account may hold (margin.collateral[i]).
RawBalance == {-50, 0, 50, 100}
\* Signed position sizes (control.open_orders_agg[m].pos_size).
PosSize == {-40, 0, 20}
\* Aggregate resting order size per market.
OrderSize == {0, 1}
\* Total collateral value of the liquidator's own margin account.
LiqorCollateral == {-35, 0, 64}

(***************************************************************************)
(* Program constants.                                                      *)
(***************************************************************************)
\* zo_abi::DUST_THRESHOLD, with the value the documented scenarios use.
DUST_THRESHOLD == 10
\* let reduction_max = 5;
reduction_max == 5
\* The second argument of every retry_send call.
RETRY_ATTEMPTS == 5
\* instruction::ForceCancelAllPerpOrders { limit: 32 }
CANCEL_LIMIT == 32

(***************************************************************************)
(* Snapshot data that is the same for every account: prices, lot sizes and *)
(* decimals, indexed like the account's arrays.                            *)
(***************************************************************************)
OraclePrice(i) == 1 + (i % 2)
MarkPrice(m) == 2 - (m % 2)
CoinLotSize(m) == 1 + (m % 2)
Decimals(i) == i % 2

Abs(x) == IF x < 0 THEN -x ELSE x

RECURSIVE Pow(_, _)
Pow(b, e) == IF e = 0 THEN 1 ELSE b * Pow(b, e - 1)

\* Rust's integer division: the quotient is truncated toward zero.
TruncDiv(a, b) == IF a >= 0 THEN a \div b ELSE -((-a) \div b)

\* I80F48 quotient converted with to_num::<i64>(): the fractional bits are
\* discarded, which rounds toward minus infinity.
FloorDiv(a, b) == a \div b

\* `x as u64` of an i64: a negative x wraps to 2^64 + x.  The value is kept as
\* wrap * 2^64 + val.
AsU64(x) == [wrap |-> IF x < 0 THEN 1 ELSE 0, val |-> x]

(***************************************************************************)
(* Valuation (liquidate, lines 105-178).                                   *)
(***************************************************************************)
\* get_actual_collateral_vec: per index, raw balance times oracle price.
ActualCollateralVec(collat) == [i \in Coll |-> collat[i] * OraclePrice(i)]

\* positions: pos_size times mark price, per market.
Positions(psize) == [m \in Mkt |-> psize[m] * MarkPrice(m)]

\* A faulty variant of MinByKey: the last of several equally minimum elements.
MinByKeyLast(v) ==
    CHOOSE i \in DOMAIN v :
        /\ \A j \in DOMAIN v : v[i] <= v[j]
        /\ \A j \in DOMAIN v : (v[j] = v[i]) => i >= j

\* Iterator::min_by_key: the first of several equally minimum elements.
MinByKey(v) ==
    CHOOSE i \in DOMAIN v :
        /\ \A j \in DOMAIN v : v[i] <= v[j]
        /\ \A j \in DOMAIN v : (v[j] = v[i]) => i <= j

\* A faulty variant of MaxByKey: the first of several equally maximum elements.
MaxByKeyFirst(v) ==
    CHOOSE i \in DOMAIN v :
        /\ \A j \in DOMAIN v : v[i] >= v[j]
        /\ \A j \in DOMAIN v : (v[j] = v[i]) => i <= j

\* Iterator::max_by_key: the last of several equally maximum elements.
MaxByKey(v) ==
    CHOOSE i \in DOMAIN v :
        /\ \A j \in DOMAIN v : v[i] >= v[j]
        /\ \A j \in DOMAIN v : (v[j] = v[i]) => i >= j

\* (col_index, min_col): the worst collateral.
ColIndex(colls) == MinByKey(colls)
MinCol(colls) == colls[ColIndex(colls)]

\* A faulty variant of QuoteIdx: the index of the maximum, a zero maximum included.
QuoteIdxNoFallback(colls) == MaxByKey(colls)

\* quote_info: the best collateral, forced to (0, 0) when the maximum is zero.
QuoteIdx(colls) ==
    LET x == MaxByKey(colls)
    IN  IF colls[x] = 0 THEN 0 ELSE x

\* A faulty variant of HasPositions: a zero notional is a position too.
HasPositionsAlways(positions) == TRUE

\* position: the entry of largest absolute notional, None when it is zero.
AbsVec(v) == [k \in DOMAIN v |-> Abs(v[k])]
HasPositions(positions) == positions[MaxByKey(AbsVec(positions))] # 0
PositionIndex(positions) ==
    IF HasPositions(positions) THEN MaxByKey(AbsVec(positions)) ELSE 0
MaxPositionNotional(positions) ==
    IF HasPositions(positions) THEN positions[MaxByKey(AbsVec(positions))] ELSE 0

\* A faulty variant of IsSpotBankrupt: no account is spot-bankrupt.
IsSpotBankruptNever(colls) == FALSE

IsSpotBankrupt(colls) == \A i \in DOMAIN colls : colls[i] < DUST_THRESHOLD

\* largest_open_order: the market of the largest resting order (first maximum
\* wins), -1 for None.
LargestOpenOrder(osize) ==
    IF \A m \in DOMAIN osize : osize[m] = 0
    THEN -1
    ELSE CHOOSE m \in DOMAIN osize :
            /\ \A k \in DOMAIN osize : Abs(osize[m]) >= Abs(osize[k])
            /\ \A k \in DOMAIN osize : (Abs(osize[k]) = Abs(osize[m])) => m <= k

(***************************************************************************)
(* Branch selection (liquidate, lines 192-337).                            *)
(***************************************************************************)
\* A faulty variant of PerpCondition: the deficit taken as an absolute value.
PerpConditionAbs(has_positions, min_col, max_position_notional, is_spot_bankrupt) ==
    has_positions
        /\ (Abs(min_col) <= Abs(max_position_notional) \/ is_spot_bankrupt)

\* A faulty variant of PerpCondition: any position leads to the perp branch.
PerpConditionAnyPosition(has_positions, min_col, max_position_notional, is_spot_bankrupt) ==
    has_positions

PerpCondition(has_positions, min_col, max_position_notional, is_spot_bankrupt) ==
    has_positions
        /\ (-min_col <= Abs(max_position_notional) \/ is_spot_bankrupt)

\* A faulty variant of SelectBranch: bankruptcy is settled before orders are looked at.
SelectBranchSettleFirst(colls, positions, osize) ==
    IF PerpCondition(HasPositions(positions), MinCol(colls),
                     MaxPositionNotional(positions), IsSpotBankrupt(colls))
    THEN "perp"
    ELSE IF IsSpotBankrupt(colls) /\ ~HasPositions(positions)
    THEN "settle"
    ELSE IF MinCol(colls) < 0
    THEN "spot"
    ELSE IF LargestOpenOrder(osize) # -1
    THEN "cancel"
    ELSE "none"

\* A faulty variant of SelectBranch: the last rule (cancel the resting orders of an
\* account that needs nothing else) left out.
SelectBranchNoLastCancel(colls, positions, osize) ==
    IF PerpCondition(HasPositions(positions), MinCol(colls),
                     MaxPositionNotional(positions), IsSpotBankrupt(colls))
    THEN "perp"
    ELSE IF IsSpotBankrupt(colls) /\ ~HasPositions(positions)
    THEN IF LargestOpenOrder(osize) # -1 THEN "cancel" ELSE "settle"
    ELSE IF MinCol(colls) < 0
    THEN "spot"
    ELSE "none"

SelectBranch(colls, positions, osize) ==
    IF PerpCondition(HasPositions(positions), MinCol(colls),
                     MaxPositionNotional(positions), IsSpotBankrupt(colls))
    THEN "perp"
    ELSE IF IsSpotBankrupt(colls) /\ ~HasPositions(positions)
    THEN IF LargestOpenOrder(osize) # -1 THEN "cancel" ELSE "settle"
    ELSE IF MinCol(colls) < 0
    THEN "spot"
    ELSE IF LargestOpenOrder(osize) # -1
    THEN "cancel"
    ELSE "none"

\* Whether liquidate calls largest_open_order (lines 217 and 320): in the
\* branches after the perp branch, except the spot branch.
ReadsOrders(colls, positions) ==
    /\ ~PerpCondition(HasPositions(positions), MinCol(colls),
                      MaxPositionNotional(positions), IsSpotBankrupt(colls))
    /\ ((IsSpotBankrupt(colls) /\ ~HasPositions(positions)) \/ ~(MinCol(colls) < 0))

\* The resting orders of an account whose orders were not read.
Unread == << >>

(***************************************************************************)
(* Sizing (lines 509-517 and 644-652).                                     *)
(***************************************************************************)
InitialLots(tcv, index) ==
    TruncDiv(FloorDiv(tcv, MarkPrice(index)), CoinLotSize(index)) * 10

InitialAmount(tcv, asset) ==
    TruncDiv(FloorDiv(tcv, OraclePrice(asset)), Pow(10, Decimals(asset))) * 10

\* A faulty variant of Halve: the quotient rounded toward minus infinity.
HalveFloor(x) == x \div 2

\* A faulty variant of Halve: the size is doubled.
HalveDoubling(x) == x * 2

\* asset_transfer_lots /= 2
Halve(x) == TruncDiv(x, 2)

(***************************************************************************)
(* Instructions and submissions.                                           *)
(***************************************************************************)
\* An instruction: its name, the market or asset index it targets, its
\* argument and (for a spot liquidation) the quote index.  An unsigned 64-bit
\* argument stands for wrap * 2^64 + arg.
Ix(name, target, arg, quote) ==
    [name |-> name, target |-> target, arg |-> arg, wrap |-> 0, quote |-> quote]

\* The argument `x as u64`.
IxU64(name, target, x) ==
    [name |-> name, target |-> target, arg |-> AsU64(x).val,
     wrap |-> AsU64(x).wrap, quote |-> -1]

\* A faulty variant of PerpRequest: the rebalance instruction never included.
PerpRequestWithoutRebalance(index, lots, rebalance, liqee_was_long) ==
    <<Ix("ForceCancelAllPerpOrders", index, CANCEL_LIMIT, -1),
      IxU64("LiquidatePerpPosition", index, lots)>>

\* The request liquidate_perp_position submits (lines 488-507, 519-545, 572-582).
PerpRequest(index, lots, rebalance, liqee_was_long) ==
    <<Ix("ForceCancelAllPerpOrders", index, CANCEL_LIMIT, -1),
      IxU64("LiquidatePerpPosition", index, lots)>>
    \o (IF rebalance
        THEN <<Ix("ClosePosition", index, IF liqee_was_long THEN 1 ELSE 0, -1)>>
        ELSE << >>)

\* A faulty variant of SpotRequest: the asset and the quote exchanged.
SpotRequestExchanged(asset, quote, amount) ==
    <<Ix("LiquidateSpotPosition", quote, amount, asset)>>

\* The request liquidate_spot_position submits (lines 654-672, 677-682).
SpotRequest(asset, quote, amount) ==
    <<Ix("LiquidateSpotPosition", asset, amount, quote)>>

\* A faulty variant of CancelRequest: the orders of market 0 are cancelled.
CancelRequestMarketZero(oo_index) ==
    <<Ix("ForceCancelAllPerpOrders", 0, CANCEL_LIMIT, -1)>>

\* The request cancel_orders submits (lines 420-440).
CancelRequest(oo_index) ==
    <<Ix("ForceCancelAllPerpOrders", oo_index, CANCEL_LIMIT, -1)>>

\* A faulty variant of SettleRequest: every request settles collateral 0.
SettleRequestSameIndex(i) ==
    <<Ix("SettleBankruptcy", 0, 0, -1)>>

\* The request settle_bankruptcy submits for one collateral (lines 744-760).
SettleRequest(i) ==
    <<Ix("SettleBankruptcy", i, 0, -1)>>

\* One retry_send call: the instructions of the request, the maximum number of
\* attempts and what retry_send returned.
Submission(ixs, outcome) ==
    [ixs |-> ixs, attempts |-> RETRY_ATTEMPTS, outcome |-> outcome]

\* What retry_send returns for a liquidation request.
SendOutcome == {"Ok", "LiquidationOverExposure", "Other"}
\* What retry_send returns for the other requests, and swap_asset.
CallOutcome == {"Ok", "Err"}

VARIABLES
    valuation,          \* what get_actual_collateral_vec returned ("none" before)
    pc,                 \* where the liquidate call stands
    result,             \* what liquidate returned ("none" while running)
    invoked,            \* the executors liquidate has called, in order
    collateral,         \* margin.collateral: raw balance per collateral index
    pos_size,           \* control.open_orders_agg[m].pos_size
    order_size,         \* resting order size per market, once read
    liqor_tcv,          \* get_total_collateral(liqor_margin), once read
    asset_transfer,     \* asset_transfer_lots / asset_transfer_amount
    rebalance_ix,       \* whether close_position_ix built an instruction
    reduction,          \* iterations of the reduction loop completed
    sent,               \* the retry_send calls made, in order
    lookups,            \* the serum registrations looked up, in order
    swaps,              \* the swap_asset calls made, in order
    settle_i,           \* the collateral index settle_bankruptcy stands at
    signature_results,  \* settle_bankruptcy's signature_results
    loop_pc,            \* where liquidate_loop stands
    since_refresh,      \* last_refresh.elapsed(), in milliseconds
    interval_delay,     \* the interval's next deadline minus now, in milliseconds
    checks_in_flight,   \* check_all_accounts calls that have not returned
    check_result,       \* what the last check_all_accounts returned
    elapsed_seen,       \* last_refresh.elapsed() as line 65 last read it
    refresh_result,     \* what refresh_accounts returned in the last iteration
    prev,               \* poll_update_funding's prev: funding time recorded per market
    res,                \* what db::Funding::update returned in the last tick
    inserted,           \* per market, the funding times inserted, in order
    last_updated,       \* per market, the funding time the last tick loaded
    to_update           \* the markets the last tick selected (its batch)

\* The state of one liquidate call, and the state of the scan loop.
liq_vars == <<valuation, pc, result, invoked, collateral, pos_size, order_size,
              liqor_tcv, asset_transfer, rebalance_ix, reduction, sent, lookups,
              swaps, settle_i, signature_results>>
scan_vars == <<loop_pc, since_refresh, interval_delay, checks_in_flight,
               check_result, elapsed_seen, refresh_result>>

funding_vars == <<prev, res, inserted, last_updated, to_update>>

vars == <<liq_vars, scan_vars, funding_vars>>

colls == ActualCollateralVec(collateral)
positions == Positions(pos_size)
col_index == ColIndex(colls)
quote_idx == QuoteIdx(colls)
position_index == PositionIndex(positions)

\* liquidate_loop before its first tick (lines 36-39): last_refresh is now and
\* the interval's first tick is due at once.
ScanInit ==
    /\ loop_pc = "tick"
    /\ since_refresh = 0
    /\ interval_delay = 0
    /\ checks_in_flight = 0
    /\ check_result = "none"
    /\ elapsed_seen = 0
    /\ refresh_result = "none"

\* poll_update_funding before its first tick (lines 385-394): prev is 0 for
\* every market.
FundingInit ==
    /\ prev = [m \in Mkt |-> 0]
    /\ res = "none"
    /\ inserted = [m \in Mkt |-> << >>]
    /\ last_updated = [m \in Mkt |-> 0]
    /\ to_update = {}

Init ==
    /\ ScanInit
    /\ FundingInit
    /\ valuation = "none"
    /\ pc = "idle"
    /\ result = "none"
    /\ invoked = << >>
    /\ collateral = [i \in Coll |-> 0]
    /\ pos_size = [m \in Mkt |-> 0]
    /\ order_size = Unread
    /\ liqor_tcv = 0
    /\ asset_transfer = 0
    /\ rebalance_ix = FALSE
    /\ reduction = 0
    /\ sent = << >>
    /\ lookups = << >>
    /\ swaps = << >>
    /\ settle_i = 0
    /\ signature_results = << >>

\* What get_actual_collateral_vec returned.
ValuationResult(valued) == IF valued THEN "Ok" ELSE "Err"

\* A faulty variant of AfterValuation: a failed valuation does not end the call.
AfterValuationCarryOn(colls_result) == "select"

\* match colls (lines 111-120): an Err returns CollateralFailure.
AfterValuation(colls_result) ==
    IF colls_result = "Err" THEN "return_failure" ELSE "select"

\* liquidate(): valuation, selection and the call of the selected executor up
\* to its first submission.
Liquidate ==
    /\ pc = "idle"
    /\ \E c \in [Coll -> RawBalance], p \in [Mkt -> PosSize],
          o \in [Mkt -> OrderSize], tcv \in LiqorCollateral,
          valued \in BOOLEAN, built \in BOOLEAN :
        LET cv == ActualCollateralVec(c)
            pv == Positions(p)
            branch == SelectBranch(cv, pv, o)
        IN  /\ collateral' = c
            /\ pos_size' = p
            /\ order_size' = IF AfterValuation(ValuationResult(valued)) = "select"
                                    /\ ReadsOrders(cv, pv)
                             THEN o ELSE Unread
            /\ valuation' = ValuationResult(valued)
            /\ IF AfterValuation(ValuationResult(valued)) = "return_failure"
               THEN /\ pc' = "done"
                    /\ result' = "CollateralFailure"
                    /\ invoked' = << >>
                    /\ liqor_tcv' = 0
                    /\ asset_transfer' = 0
                    /\ rebalance_ix' = FALSE
               ELSE CASE branch = "perp" ->
                            /\ pc' = "perp"
                            /\ result' = "none"
                            /\ invoked' = <<"liquidate_perp_position">>
                            /\ liqor_tcv' = tcv
                            /\ asset_transfer' = InitialLots(tcv, PositionIndex(pv))
                            /\ rebalance_ix' = built
                      [] branch = "spot" ->
                            /\ pc' = "spot"
                            /\ result' = "none"
                            /\ invoked' = <<"liquidate_spot_position">>
                            /\ liqor_tcv' = tcv
                            /\ asset_transfer' = InitialAmount(tcv, ColIndex(cv))
                            /\ rebalance_ix' = FALSE
                      [] branch = "cancel" ->
                            /\ pc' = "cancel"
                            /\ result' = "none"
                            /\ invoked' = <<"cancel">>
                            /\ liqor_tcv' = 0
                            /\ asset_transfer' = 0
                            /\ rebalance_ix' = FALSE
                      [] branch = "settle" ->
                            /\ pc' = "settle"
                            /\ result' = "none"
                            /\ invoked' = <<"settle_bankruptcy">>
                            /\ liqor_tcv' = 0
                            /\ asset_transfer' = 0
                            /\ rebalance_ix' = FALSE
                      [] OTHER ->
                            /\ pc' = "done"
                            /\ result' = "Ok"
                            /\ invoked' = << >>
                            /\ liqor_tcv' = 0
                            /\ asset_transfer' = 0
                            /\ rebalance_ix' = FALSE
    /\ reduction' = 0
    /\ sent' = << >>
    /\ lookups' = << >>
    /\ swaps' = << >>
    /\ settle_i' = 0
    /\ signature_results' = << >>
    /\ UNCHANGED <<scan_vars, funding_vars>>

\* A faulty variant of ReductionsLeft: one more iteration of the reduction loop.
ReductionsLeftOneMore(done) == done < reduction_max + 1

\* for _reduction in 0..reduction_max: whether another iteration follows after
\* `done` iterations.
ReductionsLeft(done) == done < reduction_max

\* A faulty variant of AfterSend: every rejection is answered by a halved resubmission.
AfterSendHalveAlways(outcome) ==
    IF outcome = "Ok" THEN "return_ok" ELSE "halve"

\* A faulty variant of AfterSend: an over-exposure rejection ends the call.
AfterSendOverExposureFails(outcome) ==
    IF outcome = "Ok" THEN "return_ok" ELSE "return_failure"

\* match signature (lines 587-612 and 686-711): what follows a retry_send.
AfterSend(outcome) ==
    IF outcome = "Ok" THEN "return_ok"
    ELSE IF outcome = "LiquidationOverExposure" THEN "halve"
    ELSE "return_failure"

\* if let (Some(serum_market), Some(serum_vault_signer)) = (.get(&i), .get(&i))
Registered(market, signer) == market /\ signer

\* A serum registration looked up twice gives the same answer.
SameAsBefore(index, market, signer) ==
    \A k \in 1 .. Len(lookups) :
        lookups[k].index = index =>
            (lookups[k].market = market /\ lookups[k].signer = signer)

Lookup(index, market, signer) ==
    [index |-> index, market |-> market, signer |-> signer]

Swap(index, outcome) == [index |-> index, outcome |-> outcome]

\* One iteration of liquidate_perp_position's reduction loop (lines 570-613)
\* and, after the last one, its return (line 615).
PerpSubmit ==
    /\ pc = "perp"
    /\ \E outcome \in SendOutcome :
        /\ sent' = Append(sent,
                Submission(PerpRequest(position_index, asset_transfer, rebalance_ix,
                                       MaxPositionNotional(positions) > 0),
                           outcome))
        /\ CASE AfterSend(outcome) = "return_ok" ->
                    /\ pc' = "done"
                    /\ result' = "Ok"
                    /\ UNCHANGED <<asset_transfer, reduction>>
             [] AfterSend(outcome) = "halve" ->
                    /\ asset_transfer' = Halve(asset_transfer)
                    /\ reduction' = reduction + 1
                    /\ IF ReductionsLeft(reduction + 1)
                       THEN pc' = "perp" /\ result' = "none"
                       ELSE pc' = "done" /\ result' = "LiquidationFailure"
             [] OTHER ->
                    /\ pc' = "done"
                    /\ result' = "LiquidationFailure"
                    /\ UNCHANGED <<asset_transfer, reduction>>
    /\ UNCHANGED <<scan_vars, funding_vars>>
    /\ UNCHANGED <<valuation, invoked, collateral, pos_size, order_size, liqor_tcv,
                   rebalance_ix, lookups, swaps, settle_i, signature_results>>

\* One iteration of liquidate_spot_position's reduction loop (lines 675-712)
\* and, after the last one, its return (line 713).
SpotSubmit ==
    /\ pc = "spot"
    /\ \E outcome \in SendOutcome :
        /\ sent' = Append(sent,
                Submission(SpotRequest(col_index, quote_idx, asset_transfer), outcome))
        /\ CASE AfterSend(outcome) = "return_ok" ->
                    /\ pc' = "swap_quote"
                    /\ result' = "none"
                    /\ UNCHANGED <<asset_transfer, reduction>>
             [] AfterSend(outcome) = "halve" ->
                    /\ asset_transfer' = Halve(asset_transfer)
                    /\ reduction' = reduction + 1
                    /\ IF ReductionsLeft(reduction + 1)
                       THEN pc' = "spot" /\ result' = "none"
                       ELSE pc' = "done" /\ result' = "LiquidationFailure"
             [] OTHER ->
                    /\ pc' = "done"
                    /\ result' = "LiquidationFailure"
                    /\ UNCHANGED <<asset_transfer, reduction>>
    /\ UNCHANGED <<scan_vars, funding_vars>>
    /\ UNCHANGED <<valuation, invoked, collateral, pos_size, order_size, liqor_tcv,
                   rebalance_ix, lookups, swaps, settle_i, signature_results>>

\* liquidate, lines 274-296: the rebalancing swap of the quote leg.
SwapQuote ==
    /\ pc = "swap_quote"
    /\ \E market \in BOOLEAN, signer \in BOOLEAN, outcome \in CallOutcome :
        /\ lookups' = Append(lookups, Lookup(quote_idx, market, signer))
        /\ IF Registered(market, signer)
           THEN /\ swaps' = Append(swaps, Swap(quote_idx, outcome))
                /\ IF outcome = "Ok"
                   THEN pc' = "swap_coll" /\ result' = "none"
                   ELSE pc' = "done" /\ result' = "SwapFailure"
           ELSE /\ swaps' = swaps
                /\ pc' = "swap_coll"
                /\ result' = "none"
    /\ UNCHANGED <<scan_vars, funding_vars>>
    /\ UNCHANGED <<valuation, invoked, collateral, pos_size, order_size, liqor_tcv,
                   asset_transfer, rebalance_ix, reduction, sent, settle_i,
                   signature_results>>

\* liquidate, lines 297-319 and 342: the rebalancing swap of the collateral leg.
SwapCollateral ==
    /\ pc = "swap_coll"
    /\ \E market \in BOOLEAN, signer \in BOOLEAN, outcome \in CallOutcome :
        /\ SameAsBefore(col_index, market, signer)
        /\ lookups' = Append(lookups, Lookup(col_index, market, signer))
        /\ pc' = "done"
        /\ IF Registered(market, signer)
           THEN /\ swaps' = Append(swaps, Swap(col_index, outcome))
                /\ result' = IF outcome = "Ok" THEN "Ok" ELSE "SwapFailure"
           ELSE /\ swaps' = swaps
                /\ result' = "Ok"
    /\ UNCHANGED <<scan_vars, funding_vars>>
    /\ UNCHANGED <<valuation, invoked, collateral, pos_size, order_size, liqor_tcv,
                   asset_transfer, rebalance_ix, reduction, sent, settle_i,
                   signature_results>>

\* cancel() called by itself (it is public): the account's resting orders are
\* whatever they are, none included.
CancelCall ==
    /\ pc = "idle"
    /\ \E o \in [Mkt -> OrderSize] : order_size' = o
    /\ pc' = "cancel"
    /\ invoked' = <<"cancel">>
    /\ UNCHANGED <<valuation, result, collateral, pos_size, liqor_tcv,
                   asset_transfer, rebalance_ix, reduction, sent, lookups, swaps,
                   settle_i, signature_results>>
    /\ UNCHANGED <<scan_vars, funding_vars>>

\* cancel and cancel_orders (lines 345-456).
Cancel ==
    /\ pc = "cancel"
    /\ IF LargestOpenOrder(order_size) = -1
       THEN /\ sent' = sent
            /\ result' = "Ok"
       ELSE \E outcome \in CallOutcome :
            /\ sent' = Append(sent,
                    Submission(CancelRequest(LargestOpenOrder(order_size)), outcome))
            /\ result' = IF outcome = "Ok" THEN "Ok" ELSE "CancelFailure"
    /\ pc' = "done"
    /\ UNCHANGED <<scan_vars, funding_vars>>
    /\ UNCHANGED <<valuation, invoked, collateral, pos_size, order_size, liqor_tcv,
                   asset_transfer, rebalance_ix, reduction, lookups, swaps,
                   settle_i, signature_results>>

\* A faulty variant of NothingToSettle: a zero balance is settled too.
NothingToSettleOnlyPositive(balance) == balance > 0

\* if { liqee_margin.collateral[i] } >= WrappedI80F48::zero() { continue; }
NothingToSettle(balance) == balance >= 0

\* One iteration of settle_bankruptcy's loop over the collaterals (lines 739-781).
SettleIteration ==
    /\ pc = "settle"
    /\ settle_i < MAX_COLLATERALS
    /\ IF NothingToSettle(collateral[settle_i])
       THEN /\ settle_i' = settle_i + 1
            /\ UNCHANGED <<pc, result, sent, signature_results, lookups, swaps>>
       ELSE \E outcome \in CallOutcome, market \in BOOLEAN, signer \in BOOLEAN,
               swapped \in CallOutcome :
            /\ sent' = Append(sent, Submission(SettleRequest(settle_i), outcome))
            /\ signature_results' = Append(signature_results, outcome)
            /\ lookups' = Append(lookups, Lookup(settle_i, market, signer))
            /\ IF Registered(market, signer)
               THEN /\ swaps' = Append(swaps, Swap(settle_i, swapped))
                    /\ IF swapped = "Ok"
                       THEN /\ settle_i' = settle_i + 1
                            /\ UNCHANGED <<pc, result>>
                       ELSE /\ pc' = "done"
                            /\ result' = "SwapFailure"
                            /\ settle_i' = settle_i
               ELSE /\ swaps' = swaps
                    /\ settle_i' = settle_i + 1
                    /\ UNCHANGED <<pc, result>>
    /\ UNCHANGED <<scan_vars, funding_vars>>
    /\ UNCHANGED <<valuation, invoked, collateral, pos_size, order_size, liqor_tcv,
                   asset_transfer, rebalance_ix, reduction>>

\* settle_bankruptcy after its loop: the scan of signature_results (lines 783-805).
SettleReport ==
    /\ pc = "settle"
    /\ settle_i = MAX_COLLATERALS
    /\ pc' = "done"
    /\ result' = IF \E k \in 1 .. Len(signature_results) : signature_results[k] # "Ok"
                 THEN "SettlementFailure"
                 ELSE "Ok"
    /\ UNCHANGED <<scan_vars, funding_vars>>
    /\ UNCHANGED <<valuation, invoked, collateral, pos_size, order_size, liqor_tcv,
                   asset_transfer, rebalance_ix, reduction, sent, lookups, swaps,
                   settle_i, signature_results>>

\* The scan moves on to the next account.
Return ==
    /\ pc = "done"
    /\ valuation' = "none"
    /\ UNCHANGED <<scan_vars, funding_vars>>
    /\ pc' = "idle"
    /\ result' = "none"
    /\ invoked' = << >>
    /\ collateral' = [i \in Coll |-> 0]
    /\ pos_size' = [m \in Mkt |-> 0]
    /\ order_size' = Unread
    /\ liqor_tcv' = 0
    /\ asset_transfer' = 0
    /\ rebalance_ix' = FALSE
    /\ reduction' = 0
    /\ sent' = << >>
    /\ lookups' = << >>
    /\ swaps' = << >>
    /\ settle_i' = 0
    /\ signature_results' = << >>

(***************************************************************************)
(* The scan loop (liquidate_loop, lines 33-71).  Time is kept relative to  *)
(* now: since_refresh is last_refresh.elapsed() and interval_delay is the  *)
(* interval's next deadline minus now (negative when the deadline has      *)
(* passed), both in milliseconds.                                          *)
(***************************************************************************)
\* Duration::from_millis(250)
PERIOD_MS == 250
\* The whole seconds line 65 compares with (6000 in the source, scaled down).
REFRESH_AFTER_SECS == 2
\* How long a check_all_accounts call may take, in milliseconds: less than a
\* period, exactly a period, more than two periods.
CheckDuration == {100, 250, 600}

\* since_refresh saturates one second past the refresh threshold: every larger
\* elapsed time is treated by line 65 like this one.
ElapsedCap == (REFRESH_AFTER_SECS + 1) * 1000
Saturate(ms) == IF ms > ElapsedCap THEN ElapsedCap ELSE ms

\* Duration::as_secs: the whole seconds of a duration.
AsSecs(ms) == ms \div 1000

\* A faulty variant of RefreshDue: the elapsed time compared without truncation.
RefreshDueNoTruncation(elapsed) == elapsed > REFRESH_AFTER_SECS * 1000

\* last_refresh.elapsed().as_secs() > 6000
RefreshDue(elapsed) == AsSecs(elapsed) > REFRESH_AFTER_SECS

\* A faulty variant of NextDelay: MissedTickBehavior::Burst, every missed tick is
\* kept and delivered.
NextDelayBurst(late) == late + PERIOD_MS

\* The interval's next deadline after a tick delivered `-late` milliseconds
\* after its deadline, under MissedTickBehavior::Skip: the next multiple of the
\* period after now.
NextDelay(late) ==
    IF late < 0
    THEN PERIOD_MS - ((-late) % PERIOD_MS)
    ELSE late + PERIOD_MS

\* interval.tick().await returns (line 42) and check_all_accounts is called
\* (line 45).  A deadline still ahead is waited for.
Tick ==
    /\ loop_pc = "tick"
    /\ LET waited == IF interval_delay > 0 THEN interval_delay ELSE 0
       IN  /\ since_refresh' = Saturate(since_refresh + waited)
           /\ interval_delay' = NextDelay(interval_delay - waited)
    /\ loop_pc' = "check"
    /\ checks_in_flight' = checks_in_flight + 1
    /\ UNCHANGED <<check_result, elapsed_seen, refresh_result>>
    /\ UNCHANGED <<liq_vars, funding_vars>>

\* check_all_accounts returns after `d` milliseconds (lines 45-63), then the
\* refresh of the account table if it is due (lines 65-69); refresh_accounts
\* is unwrapped, an Err panics.
CheckReturns ==
    /\ loop_pc = "check"
    /\ \E d \in CheckDuration, outcome \in CallOutcome, refreshed \in CallOutcome :
        LET elapsed == Saturate(since_refresh + d)
        IN  /\ check_result' = outcome
            /\ checks_in_flight' = checks_in_flight - 1
            /\ interval_delay' = interval_delay - d
            /\ elapsed_seen' = elapsed
            /\ IF RefreshDue(elapsed)
               THEN /\ refresh_result' = refreshed
                    /\ IF refreshed = "Ok"
                       THEN since_refresh' = 0 /\ loop_pc' = "tick"
                       ELSE since_refresh' = elapsed /\ loop_pc' = "panicked"
               ELSE /\ refresh_result' = "none"
                    /\ since_refresh' = elapsed
                    /\ loop_pc' = "tick"
    /\ UNCHANGED <<liq_vars, funding_vars>>

Next ==
    \/ Liquidate
    \/ PerpSubmit
    \/ SpotSubmit
    \/ SwapQuote
    \/ SwapCollateral
    \/ CancelCall
    \/ Cancel
    \/ SettleIteration
    \/ SettleReport
    \/ Return

Spec == Init /\ [][Next]_vars

(***************************************************************************)
(* The funding poller (listener/mod.rs, poll_update_funding, lines         *)
(* 379-443).  The markets are the perp markets; a funding time is a u64.   *)
(***************************************************************************)
\* The largest funding time a market shows.
MAX_FUNDING_TIME == 2
FundingTime == 0 .. MAX_FUNDING_TIME

\* A faulty variant of NeedsUpdate: an unchanged funding time is selected too.
NeedsUpdateNotOlder(m_last_updated, prev_update) == m_last_updated >= prev_update

\* The filter of to_update (line 407).
NeedsUpdate(m_last_updated, prev_update) == m_last_updated > prev_update

\* A faulty variant of AfterInsert: prev is stored whatever the insert returned.
AfterInsertStoreAlways(outcome) == "store"

\* What follows db::Funding::update (lines 425-430): an Err is reported and
\* the iteration ends, otherwise prev is stored.
AfterInsert(outcome) == IF outcome = "Err" THEN "continue" ELSE "store"

\* One iteration of the loop (lines 396-442): the markets are loaded, those
\* whose funding time moved past prev are inserted, and prev is stored only
\* after the insert succeeded.
UpdateFunding ==
    \E loaded \in [Mkt -> FundingTime], outcome \in CallOutcome :
        LET selected == {m \in Mkt : NeedsUpdate(loaded[m], prev[m])}
        IN  /\ last_updated' = loaded
            /\ to_update' = selected
            /\ IF selected = {}
               THEN /\ res' = "none"
                    /\ UNCHANGED <<prev, inserted>>
               ELSE /\ res' = outcome
                    /\ inserted' = [m \in Mkt |->
                                IF m \in selected /\ outcome = "Ok"
                                THEN Append(inserted[m], loaded[m])
                                ELSE inserted[m]]
                    /\ prev' = [m \in Mkt |->
                                IF m \in selected /\ AfterInsert(outcome) = "store"
                                THEN loaded[m]
                                ELSE prev[m]]
            /\ UNCHANGED <<liq_vars, scan_vars>>

FundingNext ==
    \/ UpdateFunding

\* The funding poller alone.
FundingSpec == Init /\ [][FundingNext]_vars

ScanNext ==
    \/ Tick
    \/ CheckReturns

\* The scan loop alone.  The timer fires and a check that was called returns.
ScanSpec == Init /\ [][ScanNext]_vars /\ WF_vars(Tick) /\ WF_vars(CheckReturns)

(***************************************************************************)
(* Vocabulary of the properties, stated on the state alone.                *)
(***************************************************************************)
Called(name) == \E k \in 1 .. Len(invoked) : invoked[k] = name

\* liquidate was called and the valuation succeeded.
Triaged == pc # "idle" /\ valuation = "Ok"

\* The value of collateral i and the notional of the position in market m.
Value(i) == collateral[i] * OraclePrice(i)
Notional(m) == pos_size[m] * MarkPrice(m)

\* i holds the worst (minimum) collateral value, at the lowest index holding it.
IsWorst(i) ==
    \A j \in Coll : Value(i) <= Value(j) /\ (j < i => Value(j) # Value(i))
\* i holds the best (maximum) collateral value.
IsBest(i) == \A j \in Coll : Value(i) >= Value(j)
\* m holds the position of largest absolute notional.
IsLargest(m) == \A k \in Mkt : Abs(Notional(m)) >= Abs(Notional(k))

WorstIsNegative == \E i \in Coll : Value(i) < 0
PositionExists == \E m \in Mkt : Notional(m) # 0
SpotBankrupt == \A i \in Coll : Value(i) < DUST_THRESHOLD
OrdersRead == order_size # Unread
RestingOrderExists == \E m \in Mkt : order_size[m] # 0

\* The deficit (the negated worst collateral value) is at most the largest
\* absolute notional.
DeficitWithinNotional ==
    \E i \in Coll, m \in Mkt :
        IsWorst(i) /\ IsLargest(m) /\ -Value(i) <= Abs(Notional(m))
\* The absolute worst collateral value is at most the largest absolute notional.
AbsoluteWorstWithinNotional ==
    \E i \in Coll, m \in Mkt :
        IsWorst(i) /\ IsLargest(m) /\ Abs(Value(i)) <= Abs(Notional(m))

\* The first selection rule as the code applies it, and the second.
PerpRule == PositionExists /\ (DeficitWithinNotional \/ SpotBankrupt)
BankruptRule == SpotBankrupt /\ ~PositionExists

\* The call runs, or ran, the perp or the spot liquidator.
InLiquidator ==
    invoked = <<"liquidate_perp_position">> \/ invoked = <<"liquidate_spot_position">>

\* The size carried by the liquidate instruction of a liquidator's submission:
\* the second instruction of the perp liquidator's request, the only one of
\* the spot liquidator's.
SizeOf(sub) == sub.ixs[IF Len(sub.ixs) = 1 THEN 1 ELSE 2].arg

\* The size the liquidator started with, and the over-exposure rejections so far.
InitialSize == IF Len(sent) = 0 THEN asset_transfer ELSE SizeOf(sent[1])
RejectionsBefore(n) ==
    Cardinality({k \in 1 .. (n - 1) : sent[k].outcome = "LiquidationOverExposure"})
Rejections == RejectionsBefore(Len(sent) + 1)
AllOverExposed ==
    Len(sent) > 0 /\ \A k \in 1 .. Len(sent) : sent[k].outcome = "LiquidationOverExposure"

\* x / d truncated toward zero, and rounded toward minus infinity.
Truncated(x, d) == IF x < 0 THEN -((-x) \div d) ELSE x \div d
Floored(x, d) == x \div d

\* The powers of two the reduction loop can reach.
Pow2(k) == Pow(2, k)

(***************************************************************************)
(* C1                                                                      *)
(***************************************************************************)
\* C1 as stated: the perp branch is taken iff a position exists and (the absolute
\* value of the worst collateral value is <= the largest absolute notional, or
\* the account is spot-bankrupt).
C1_PerpIffAbsoluteWorst ==
    Triaged =>
        (Called("liquidate_perp_position")
            <=> (PositionExists /\ (AbsoluteWorstWithinNotional \/ SpotBankrupt)))

\* C1 amended: the perp branch is taken iff a position exists and (the negated
\* worst collateral value, i.e. the deficit, is <= the largest absolute
\* notional, or the account is spot-bankrupt); with a non-negative worst value
\* a position always leads to the perp branch.
C1_PerpIffDeficitWithinNotional ==
    Triaged =>
        /\ Called("liquidate_perp_position")
            <=> (PositionExists /\ (DeficitWithinNotional \/ SpotBankrupt))
        /\ (PositionExists /\ ~WorstIsNegative) => Called("liquidate_perp_position")

\* C1 witness: the perp liquidator runs for an account that is not spot-bankrupt
\* and whose worst collateral value is positive and larger than the notional.
C1_Witness ==
    /\ Called("liquidate_perp_position")
    /\ Len(sent) > 0
    /\ ~SpotBankrupt
    /\ PositionExists
    /\ \A i \in Coll : Value(i) > 0
    /\ \A i \in Coll, m \in Mkt : Value(i) > Abs(Notional(m))

(***************************************************************************)
(* C2                                                                      *)
(***************************************************************************)
\* C2 as stated: when every submission is rejected as over-exposed there are 6
\* submissions, the last carrying the size after the 5th reduction.
C2_SixSubmissions ==
    (InLiquidator /\ pc = "done" /\ AllOverExposed) =>
        /\ Len(sent) = 6
        /\ SizeOf(sent[Len(sent)]) = Truncated(InitialSize, 32)

\* C2 amended: when every submission is rejected as over-exposed there are
\* exactly 5 submissions, carrying initial, initial/2, ..., initial/16; the call
\* is terminal (LiquidationFailure) on the 5th rejection, and the size after the
\* 5th reduction (initial/32) is computed but never submitted.
C2_FiveSubmissions ==
    (InLiquidator /\ AllOverExposed) =>
        /\ Len(sent) <= 5
        /\ \A k \in 1 .. Len(sent) :
                SizeOf(sent[k]) = Truncated(InitialSize, Pow2(k - 1))
        /\ Len(sent) < 5 => pc \in {"perp", "spot"}
        /\ Len(sent) = 5 =>
                /\ pc = "done"
                /\ result = "LiquidationFailure"
                /\ asset_transfer = Truncated(InitialSize, 32)

\* C2 witness: an initial size of 320 rejected five times; 320, 160, 80, 40, 20
\* were submitted and the call ended holding 10.
C2_Witness ==
    /\ InLiquidator
    /\ pc = "done"
    /\ AllOverExposed
    /\ [k \in 1 .. Len(sent) |-> SizeOf(sent[k])] = <<320, 160, 80, 40, 20>>
    /\ asset_transfer = 10

(***************************************************************************)
(* C3                                                                      *)
(***************************************************************************)
\* C3 as stated: for every initial size, negative ones included, the size held
\* after k over-exposure reductions is floor(initial / 2^k).
C3_HalvingIsFloor ==
    InLiquidator => asset_transfer = Floored(InitialSize, Pow2(Rejections))

\* C3 amended: the size held after k over-exposure reductions is initial / 2^k
\* truncated toward zero, which is floor(initial / 2^k) for every non-negative
\* initial size; every submission carries the size held when it was made, and
\* nothing but an over-exposure rejection changes the size.
C3_HalvingTruncates ==
    InLiquidator =>
        /\ asset_transfer = Truncated(InitialSize, Pow2(Rejections))
        /\ InitialSize >= 0 => asset_transfer = Floored(InitialSize, Pow2(Rejections))
        /\ \A k \in 1 .. Len(sent) :
                SizeOf(sent[k]) = Truncated(InitialSize, Pow2(RejectionsBefore(k)))

\* C3 witness: a negative initial size whose halvings left the floor sequence.
C3_Witness ==
    /\ InLiquidator
    /\ InitialSize < 0
    /\ Rejections >= 2
    /\ asset_transfer # Floored(InitialSize, Pow2(Rejections))

(***************************************************************************)
(* C4                                                                      *)
(***************************************************************************)
\* C4: a submission of the perp or spot liquidator that fails with an error other
\* than over-exposure is the last one of the call: the liquidator returns
\* LiquidationFailure, the size is not halved and nothing further is submitted
\* or swapped, whatever the number of reductions before it.
C4_OtherErrorIsTerminal ==
    InLiquidator =>
        \A k \in 1 .. Len(sent) :
            sent[k].outcome = "Other" =>
                /\ k = Len(sent)
                /\ pc = "done"
                /\ result = "LiquidationFailure"
                /\ asset_transfer = SizeOf(sent[k])
                /\ Rejections = k - 1
                /\ swaps = << >>

\* C4 witness: two over-exposure rejections, then another error.
C4_Witness ==
    /\ InLiquidator
    /\ Len(sent) = 3
    /\ sent[1].outcome = "LiquidationOverExposure"
    /\ sent[2].outcome = "LiquidationOverExposure"
    /\ sent[3].outcome = "Other"
    /\ SizeOf(sent[3]) = 80
    /\ result = "LiquidationFailure"

(***************************************************************************)
(* C5                                                                      *)
(***************************************************************************)
\* The collateral index each submission of the bankruptcy settler targets.
SettleTargets == [k \in 1 .. Len(sent) |-> sent[k].ixs[1].target]

\* C5: the bankruptcy settler submits a settle-bankruptcy instruction for every
\* collateral index whose raw balance is negative, once per index and in
\* ascending order, whatever failed for an earlier index, and none for an index
\* whose balance is non-negative.
C5_EveryNegativeIndexSettled ==
    (Called("settle_bankruptcy") /\ pc = "done") =>
        /\ \A i \in Coll :
                Cardinality({k \in 1 .. Len(sent) : SettleTargets[k] = i})
                    = IF collateral[i] < 0 THEN 1 ELSE 0
        /\ \A k \in 1 .. Len(sent) : \A l \in 1 .. Len(sent) :
                k < l => SettleTargets[k] < SettleTargets[l]

(***************************************************************************)
(* C6                                                                      *)
(***************************************************************************)
\* C6: the bankruptcy settler returns SettlementFailure if at least one
\* settle-bankruptcy submission failed and success otherwise, for every
\* combination of settlement outcomes and swap outcomes.
C6_SettlementFailureIffLegFailed ==
    (Called("settle_bankruptcy") /\ pc = "done") =>
        result = IF \E k \in 1 .. Len(sent) : sent[k].outcome # "Ok"
                 THEN "SettlementFailure"
                 ELSE "Ok"

(***************************************************************************)
(* C7                                                                      *)
(***************************************************************************)
\* The spot liquidation of this call was accepted.
SpotLiquidated ==
    /\ Called("liquidate_spot_position")
    /\ Len(sent) > 0
    /\ sent[Len(sent)].outcome = "Ok"

LookedUp(i) == \E k \in 1 .. Len(lookups) : lookups[k].index = i
RegisteredFor(i) ==
    \E k \in 1 .. Len(lookups) :
        lookups[k].index = i /\ lookups[k].market /\ lookups[k].signer
SwapsOf(i) == Cardinality({k \in 1 .. Len(swaps) : swaps[k].index = i})

\* C7: after a spot liquidation the quote leg and the collateral leg are decided
\* independently: by the time liquidate returns, each leg's registration has
\* been looked up and its swap invoked exactly when a spot market and a vault
\* signer are registered for its index, whatever became of the other leg; a
\* missing registration produces no error.
C7_SwapLegsIndependent ==
    (SpotLiquidated /\ pc = "done") =>
        \A leg \in {sent[Len(sent)].ixs[1].quote, sent[Len(sent)].ixs[1].target} :
            /\ LookedUp(leg)
            /\ SwapsOf(leg) = IF RegisteredFor(leg) THEN 1 ELSE 0
            /\ swaps = << >> => result = "Ok"

(***************************************************************************)
(* C8                                                                      *)
(***************************************************************************)
\* C8: for a spot-bankrupt account without a position liquidate calls the order
\* canceller if a resting order exists and the bankruptcy settler if none
\* exists, and neither the perp nor the spot liquidator; bankruptcy settlement
\* is never started for an account that has a resting order.
C8_BankruptWithoutPosition ==
    /\ (Triaged /\ SpotBankrupt /\ ~PositionExists) =>
            /\ OrdersRead
            /\ invoked = IF RestingOrderExists
                         THEN <<"cancel">>
                         ELSE <<"settle_bankruptcy">>
            /\ RestingOrderExists =>
                    (pc = "done" => (Len(sent) = 1
                                        /\ sent[1].ixs[1].name = "ForceCancelAllPerpOrders"))
    /\ Called("settle_bankruptcy") => (OrdersRead /\ ~RestingOrderExists)

\* C8 witness: a spot-bankrupt account without a position and with a resting
\* order, whose orders were force-cancelled and whose bankruptcy was not settled.
C8_Witness ==
    /\ pc = "done"
    /\ SpotBankrupt
    /\ ~PositionExists
    /\ OrdersRead
    /\ RestingOrderExists
    /\ invoked = <<"cancel">>
    /\ Len(sent) = 1

(***************************************************************************)
(* C9                                                                      *)
(***************************************************************************)
\* C9: when neither the perp rule nor the bankrupt rule applies and the worst
\* collateral value is negative, liquidate calls the spot liquidator and no
\* other executor; every submission is one liquidate-spot-position instruction
\* whose asset is the worst collateral (lowest index of the minimum value) and
\* whose quote is a collateral of maximum value.
C9_SpotLiquidationOfWorstAgainstBest ==
    (Triaged /\ WorstIsNegative /\ ~BankruptRule /\ ~PerpRule) =>
        /\ invoked = <<"liquidate_spot_position">>
        /\ pc # "spot" => Len(sent) >= 1
        /\ \A k \in 1 .. Len(sent) :
                /\ Len(sent[k].ixs) = 1
                /\ sent[k].ixs[1].name = "LiquidateSpotPosition"
                /\ IsWorst(sent[k].ixs[1].target)
                /\ IsBest(sent[k].ixs[1].quote)
                /\ sent[k].ixs[1].quote # sent[k].ixs[1].target

\* C9 witness: values [-50, 200], no positions: asset index 0 is liquidated
\* against quote index 1.
C9_Witness ==
    /\ Value(0) = -50
    /\ Value(1) = 200
    /\ \A i \in Coll : i > 1 => Value(i) = 0
    /\ ~PositionExists
    /\ invoked = <<"liquidate_spot_position">>
    /\ Len(sent) = 1
    /\ sent[1].ixs[1].name = "LiquidateSpotPosition"
    /\ sent[1].ixs[1].target = 0
    /\ sent[1].ixs[1].quote = 1

(***************************************************************************)
(* C10                                                                     *)
(***************************************************************************)
\* C10: when none of the first three rules applies, liquidate calls the order
\* canceller if a resting order exists, and otherwise returns success having
\* called no executor, submitted nothing and swapped nothing.
C10_CancelOrNothing ==
    (Triaged /\ ~WorstIsNegative /\ ~BankruptRule /\ ~PerpRule) =>
        /\ OrdersRead
        /\ IF RestingOrderExists
           THEN /\ invoked = <<"cancel">>
                /\ pc = "done" => Len(sent) = 1
           ELSE /\ invoked = << >>
                /\ pc = "done"
                /\ result = "Ok"
                /\ sent = << >>
                /\ lookups = << >>
                /\ swaps = << >>

\* C10 witness: an account with a non-negative worst collateral value that is
\* not spot-bankrupt, has no position and no resting order: liquidate returned
\* success and did nothing.
C10_Witness ==
    /\ Triaged
    /\ ~SpotBankrupt
    /\ ~PositionExists
    /\ ~WorstIsNegative
    /\ OrdersRead
    /\ ~RestingOrderExists
    /\ pc = "done"
    /\ result = "Ok"
    /\ invoked = << >>
    /\ sent = << >>

(***************************************************************************)
(* C11                                                                     *)
(***************************************************************************)
\* The deficit of the worst collateral is strictly larger than every absolute
\* position notional.
DeficitBeyondNotional ==
    \E i \in Coll :
        Value(i) < 0 /\ \A m \in Mkt : -Value(i) > Abs(Notional(m))

\* C11: for an account that has a position, is not spot-bankrupt and whose worst
\* collateral value is negative with an absolute value strictly larger than the
\* absolute position notional, liquidate does not call the perp liquidator: it
\* calls the spot liquidator, and every submission is a spot liquidation.
C11_DeficitBeyondNotionalIsSpot ==
    (Triaged /\ PositionExists /\ ~SpotBankrupt /\ DeficitBeyondNotional) =>
        /\ ~Called("liquidate_perp_position")
        /\ invoked = <<"liquidate_spot_position">>
        /\ pc # "spot" => Len(sent) >= 1
        /\ \A k \in 1 .. Len(sent) :
                /\ Len(sent[k].ixs) = 1
                /\ sent[k].ixs[1].name = "LiquidateSpotPosition"

\* C11 witness: notional -40, collateral values [100, -100]: the spot liquidator
\* has submitted, the perp liquidator was not called.
C11_Witness ==
    /\ Value(0) = 100
    /\ Value(1) = -100
    /\ Notional(0) = 0
    /\ Notional(1) = -40
    /\ \A m \in Mkt : m > 1 => Notional(m) = 0
    /\ invoked = <<"liquidate_spot_position">>
    /\ Len(sent) >= 1
    /\ sent[1].ixs[1].name = "LiquidateSpotPosition"

(***************************************************************************)
(* C12                                                                     *)
(***************************************************************************)
\* C12: when the collateral valuation fails liquidate has returned
\* CollateralFailure and has done nothing else: no executor was called, the
\* resting orders were not read, nothing was submitted, looked up or swapped.
C12_ValuationFailureAborts ==
    valuation = "Err" =>
        /\ pc = "done"
        /\ result = "CollateralFailure"
        /\ invoked = << >>
        /\ order_size = Unread
        /\ sent = << >>
        /\ lookups = << >>
        /\ swaps = << >>
        /\ signature_results = << >>

\* C12 witness: the valuation failed for an account with a negative balance and
\* a position, and liquidate returned CollateralFailure.
C12_Witness ==
    /\ valuation = "Err"
    /\ result = "CollateralFailure"
    /\ \E i \in Coll : collateral[i] < 0
    /\ \E m \in Mkt : pos_size[m] # 0

(***************************************************************************)
(* C13                                                                     *)
(***************************************************************************)
\* C13: after the scan loop has started no failure of the universe check or of
\* the account-list refresh stops it: after either failure the loop stands at
\* its next tick or in its next check, it has not panicked.
C13_NoTickErrorStopsLoop ==
    (check_result = "Err" \/ refresh_result = "Err") => loop_pc \in {"tick", "check"}

(***************************************************************************)
(* C14                                                                     *)
(***************************************************************************)
\* C14: after every universe check that returned an error another universe
\* check is eventually invoked.
C14_CheckAfterFailedCheck ==
    (check_result = "Err" /\ loop_pc # "check") ~> (loop_pc = "check")

(***************************************************************************)
(* C15                                                                     *)
(***************************************************************************)
\* The ticks the interval would deliver at this instant without waiting.
RECURSIVE Backlog(_)
Backlog(delay) == IF delay > 0 THEN 0 ELSE 1 + Backlog(NextDelay(delay))

\* C15: at most one universe check is in flight, and however long a check
\* overruns, the interval owes at most one tick: when a tick has been delivered
\* the next deadline lies ahead, at most one period away.
C15_OneCheckOneTick ==
    /\ checks_in_flight \in {0, 1}
    /\ checks_in_flight = 1 <=> loop_pc = "check"
    /\ Backlog(interval_delay) <= 1
    /\ loop_pc = "check" =>
            \E d \in CheckDuration :
                interval_delay + d > 0 /\ interval_delay <= PERIOD_MS

\* C15 witness: a check has overrun its tick by more than a period and the
\* interval owes one tick.
C15_Witness ==
    /\ loop_pc = "tick"
    /\ interval_delay < -PERIOD_MS
    /\ Backlog(interval_delay) = 1

(***************************************************************************)
(* C16                                                                     *)
(***************************************************************************)
\* An iteration of the scan loop has completed.
IterationCompleted == loop_pc \in {"tick", "panicked"} /\ check_result # "none"

\* C16 as stated: the refresh is invoked in an iteration iff more than the
\* maintenance interval had elapsed since the previous refresh.
C16_RefreshIffMoreThanInterval ==
    IterationCompleted =>
        (refresh_result # "none" <=> elapsed_seen > REFRESH_AFTER_SECS * 1000)

\* C16 amended: the refresh is invoked in an iteration, after its check has
\* returned, iff the whole seconds elapsed since the previous refresh exceed the
\* maintenance interval, that is iff at least the interval plus one second has
\* elapsed; an elapsed time above the interval by less than a second invokes
\* none.  A refresh that succeeds restarts the measurement.
C16_RefreshIffWholeSecondsExceed ==
    IterationCompleted =>
        /\ refresh_result # "none"
                <=> elapsed_seen >= (REFRESH_AFTER_SECS + 1) * 1000
        /\ checks_in_flight = 0
        /\ (loop_pc = "tick" /\ refresh_result = "Ok") => since_refresh = 0
        /\ (loop_pc = "tick" /\ refresh_result = "none") => since_refresh = elapsed_seen

\* C16 witness: the refresh fired once a second more than the interval had
\* elapsed, and the measurement restarted.
C16_Witness ==
    /\ loop_pc = "tick"
    /\ refresh_result = "Ok"
    /\ elapsed_seen >= (REFRESH_AFTER_SECS + 1) * 1000
    /\ since_refresh = 0

(***************************************************************************)
(* C17                                                                     *)
(***************************************************************************)
\* An instruction without its argument.
WithoutArg(ix) == [ix EXCEPT !.arg = 0, !.wrap = 0]

\* C17: every submission of the perp liquidator is the force-cancel-all
\* instruction for the market of the largest position, the liquidate-perp-position
\* instruction for that market and the rebalance instruction exactly when it was
\* built; resubmissions differ from the first submission only in the lots
\* argument; the liquidator submits at least once and its result is decided by
\* the last submission alone, whether the rebalance instruction was built or not.
C17_PerpSubmissionShape ==
    Called("liquidate_perp_position") =>
        /\ \A k \in 1 .. Len(sent) :
                /\ Len(sent[k].ixs) = IF rebalance_ix THEN 3 ELSE 2
                /\ sent[k].ixs[1].name = "ForceCancelAllPerpOrders"
                /\ IsLargest(sent[k].ixs[1].target)
                /\ sent[k].ixs[2].name = "LiquidatePerpPosition"
                /\ sent[k].ixs[2].target = sent[k].ixs[1].target
                /\ rebalance_ix =>
                        /\ sent[k].ixs[3].name = "ClosePosition"
                        /\ sent[k].ixs[3].target = sent[k].ixs[1].target
                        /\ sent[k].ixs[3] = sent[1].ixs[3]
                /\ sent[k].ixs[1] = sent[1].ixs[1]
                /\ WithoutArg(sent[k].ixs[2]) = WithoutArg(sent[1].ixs[2])
        /\ pc # "perp" => Len(sent) >= 1
        /\ pc = "done" =>
                result = IF sent[Len(sent)].outcome = "Ok"
                         THEN "Ok"
                         ELSE "LiquidationFailure"

\* C17 witness: the rebalance instruction could not be built; the first
\* submission was rejected as over-exposed, the halved resubmission accepted.
C17_Witness ==
    /\ invoked = <<"liquidate_perp_position">>
    /\ ~rebalance_ix
    /\ Len(sent) = 2
    /\ sent[1].outcome = "LiquidationOverExposure"
    /\ sent[2].outcome = "Ok"
    /\ Len(sent[2].ixs) = 2
    /\ sent[2].ixs[2].arg # sent[1].ixs[2].arg
    /\ result = "Ok"

(***************************************************************************)
(* C18                                                                     *)
(***************************************************************************)
\* C18: the lots value of every liquidate-perp-position instruction submitted,
\* as the unsigned 64-bit number it is encoded as, is at most
\* floor(floor(callerTotalCollateralValue / markPrice) / lotSize) * 10.
C18_LotsBoundedByCapital ==
    Called("liquidate_perp_position") =>
        \A k \in 1 .. Len(sent) :
            /\ sent[k].ixs[2].wrap = 0
            /\ sent[k].ixs[2].arg
                    <= Floored(Floored(liqor_tcv, MarkPrice(sent[k].ixs[2].target)),
                               CoinLotSize(sent[k].ixs[2].target)) * 10

(***************************************************************************)
(* C19                                                                     *)
(***************************************************************************)
\* C19: the perp and the spot liquidator never return LiquidationOverExposure;
\* an over-exposure rejection is followed by a resubmission of half the size
\* or, when it is the 5th of 5 consecutive over-exposure rejections, by
\* LiquidationFailure.
C19_OverExposureAbsorbed ==
    InLiquidator =>
        /\ result # "LiquidationOverExposure"
        /\ \A k \in 1 .. Len(sent) :
                sent[k].outcome = "LiquidationOverExposure" =>
                    IF k < Len(sent)
                    THEN SizeOf(sent[k + 1]) = Truncated(SizeOf(sent[k]), 2)
                    ELSE \/ /\ pc \in {"perp", "spot"}
                            /\ result = "none"
                            /\ k < 5
                            /\ asset_transfer = Truncated(SizeOf(sent[k]), 2)
                         \/ /\ pc = "done"
                            /\ result = "LiquidationFailure"
                            /\ k = 5
                            /\ AllOverExposed

\* C19 witness: the spot liquidator, rejected as over-exposed five times in a
\* row, returned LiquidationFailure.
C19_Witness ==
    /\ invoked = <<"liquidate_spot_position">>
    /\ Len(sent) = 5
    /\ \A k \in 1 .. 5 : sent[k].outcome = "LiquidationOverExposure"
    /\ pc = "done"
    /\ result = "LiquidationFailure"

(***************************************************************************)
(* C20                                                                     *)
(***************************************************************************)
\* C20: the worst collateral liquidate selects holds the minimum value, and is
\* the lowest index holding it; the spot liquidator is given that index.
C20_WorstIsFirstMinimum ==
    Triaged =>
        /\ IsWorst(col_index)
        /\ \A j \in Coll : MinCol(colls) <= Value(j)
        /\ Called("liquidate_spot_position") =>
                \A k \in 1 .. Len(sent) : sent[k].ixs[1].target = col_index

\* C20 witness: every collateral holds the minimum value; index 0 is selected.
C20_Witness ==
    /\ Triaged
    /\ \A i \in Coll : Value(i) = Value(0)
    /\ col_index = 0

(***************************************************************************)
(* C21                                                                     *)
(***************************************************************************)
\* C21: the largest position liquidate selects is an entry of maximum absolute
\* notional, and the perp liquidator is given its market; when every notional
\* is zero there is no position: the perp liquidator is not called, and no
\* error is returned for it.
C21_LargestPositionOrNone ==
    Triaged =>
        /\ HasPositions(positions) <=> PositionExists
        /\ PositionExists =>
                /\ IsLargest(position_index)
                /\ MaxPositionNotional(positions) = Notional(position_index)
        /\ ~PositionExists =>
                /\ ~Called("liquidate_perp_position")
                /\ result # "NoPositions"
        /\ Called("liquidate_perp_position") =>
                \A k \in 1 .. Len(sent) :
                    /\ IsLargest(sent[k].ixs[2].target)
                    /\ Notional(sent[k].ixs[2].target) # 0

\* C21 witness: a spot-bankrupt account whose notionals are all zero: its
\* bankruptcy is settled, market 0 is not liquidated.
C21_Witness ==
    /\ Triaged
    /\ \A m \in Mkt : Notional(m) = 0
    /\ SpotBankrupt
    /\ WorstIsNegative
    /\ invoked = <<"settle_bankruptcy">>
    /\ Len(sent) >= 1

(***************************************************************************)
(* C22                                                                     *)
(***************************************************************************)
\* The maximum collateral value is exactly zero.
MaximumIsZero == (\A i \in Coll : Value(i) <= 0) /\ (\E i \in Coll : Value(i) = 0)

\* C22: the best quote candidate is a collateral of maximum value, except that
\* it is index 0 when the maximum value is exactly zero; the spot liquidator is
\* given that index as its quote.
C22_BestQuoteWithZeroFallback ==
    Triaged =>
        /\ IF MaximumIsZero THEN quote_idx = 0 ELSE IsBest(quote_idx)
        /\ Called("liquidate_spot_position") =>
                \A k \in 1 .. Len(sent) : sent[k].ixs[1].quote = quote_idx

\* C22 witness: values [-50, 0]: index 1 holds the zero maximum, index 0 is the
\* candidate.
C22_Witness ==
    /\ Triaged
    /\ Value(0) = -50
    /\ \A i \in Coll : i > 0 => Value(i) = 0
    /\ quote_idx = 0

(***************************************************************************)
(* C23                                                                     *)
(***************************************************************************)
\* The request of the k-th retry_send call without its size, and the number of
\* different transactions submitted (a resubmission with a halved size is the
\* same transaction).
RequestOf(k) == [j \in 1 .. Len(sent[k].ixs) |-> WithoutArg(sent[k].ixs[j])]
Transactions == Cardinality({RequestOf(k) : k \in 1 .. Len(sent)})
NegativeBalances == Cardinality({i \in Coll : collateral[i] < 0})

\* C23 as stated: in one liquidate call at most one transaction (with its
\* retries and reductions) is submitted, whichever branch is taken.
C23_AtMostOneTransaction ==
    pc = "done" => Transactions <= 1

\* C23 amended: one liquidate call runs at most one executor.  The perp
\* liquidator and the order canceller submit at most one transaction and no
\* swap; the spot liquidator submits at most one transaction followed by at
\* most two swaps; the bankruptcy settler submits one transaction for each
\* negative-balance index it reaches, each followed by at most one swap.
C23_OneExecutorItsTransactions ==
    /\ Len(invoked) <= 1
    /\ invoked = << >> => (sent = << >> /\ swaps = << >>)
    /\ (Called("liquidate_perp_position") \/ Called("cancel")) =>
            (Transactions <= 1 /\ swaps = << >>)
    /\ Called("cancel") => Len(sent) <= 1
    /\ Called("liquidate_spot_position") =>
            (Transactions <= 1 /\ Len(swaps) <= 2)
    /\ Called("settle_bankruptcy") =>
            /\ Transactions = Len(sent)
            /\ Len(sent) <= NegativeBalances
            /\ Len(swaps) <= Len(sent)
            /\ \A k \in 1 .. Len(sent) :
                    /\ sent[k].ixs[1].name = "SettleBankruptcy"
                    /\ collateral[sent[k].ixs[1].target] < 0

\* C23 witness: the bankruptcy settler has submitted two transactions, one for
\* each of two negative balances, and returned.
C23_Witness ==
    /\ invoked = <<"settle_bankruptcy">>
    /\ pc = "done"
    /\ Len(sent) = 2
    /\ sent[1].ixs[1].target # sent[2].ixs[1].target
    /\ result = "Ok"

(***************************************************************************)
(* C24                                                                     *)
(***************************************************************************)
\* C24: the perp and the spot liquidator make at most 5 retry_send calls, each
\* limited to 5 attempts; a further call follows only while fewer than 5 were
\* made, and when the 5th is rejected the liquidator has returned
\* LiquidationFailure.
C24_LiquidatorsTerminate ==
    InLiquidator =>
        /\ Len(sent) <= 5
        /\ reduction <= 5
        /\ \A k \in 1 .. Len(sent) : sent[k].attempts = 5
        /\ pc \in {"perp", "spot"} => (Len(sent) < 5 /\ reduction = Len(sent))
        /\ (Len(sent) = 5 /\ sent[5].outcome # "Ok") =>
                (pc = "done" /\ result = "LiquidationFailure")

\* C24 witness: the perp liquidator made its 5th call after four over-exposure
\* rejections; the 5th was rejected too and it returned LiquidationFailure.
C24_Witness ==
    /\ invoked = <<"liquidate_perp_position">>
    /\ Len(sent) = 5
    /\ \A k \in 1 .. 5 : sent[k].attempts = 5
    /\ \A k \in 1 .. 5 : sent[k].outcome = "LiquidationOverExposure"
    /\ reduction = 5
    /\ pc = "done"
    /\ result = "LiquidationFailure"

(***************************************************************************)
(* C25                                                                     *)
(***************************************************************************)
\* m is the market of the largest resting order, the first of equally large ones.
IsLargestOrder(m) ==
    /\ order_size[m] # 0
    /\ \A k \in Mkt :
            /\ Abs(order_size[m]) >= Abs(order_size[k])
            /\ k < m => Abs(order_size[k]) < Abs(order_size[m])

\* C25: the order canceller returns success having submitted nothing when the
\* account has no resting order; otherwise it makes exactly one retry_send call
\* of at most 5 attempts carrying one force-cancel-all instruction with limit
\* 32 for the market of the largest resting order, and returns CancelFailure
\* iff that call failed.
C25_CancelOnceOrNothing ==
    (invoked = <<"cancel">> /\ pc = "done") =>
        /\ swaps = << >>
        /\ IF ~RestingOrderExists
           THEN sent = << >> /\ result = "Ok"
           ELSE /\ Len(sent) = 1
                /\ sent[1].attempts = 5
                /\ Len(sent[1].ixs) = 1
                /\ sent[1].ixs[1].name = "ForceCancelAllPerpOrders"
                /\ sent[1].ixs[1].arg = 32
                /\ IsLargestOrder(sent[1].ixs[1].target)
                /\ result = IF sent[1].outcome = "Ok" THEN "Ok" ELSE "CancelFailure"

\* C25 witness: the only resting order is in market 1; its cancellation failed
\* and the canceller returned CancelFailure.
C25_Witness ==
    /\ invoked = <<"cancel">>
    /\ pc = "done"
    /\ order_size[0] = 0
    /\ order_size[1] # 0
    /\ Len(sent) = 1
    /\ sent[1].ixs[1].target = 1
    /\ sent[1].outcome = "Err"
    /\ result = "CancelFailure"

(***************************************************************************)
(* C26                                                                     *)
(***************************************************************************)
\* C26: when the bankruptcy settler runs for an account none of whose raw
\* balances is negative it submits nothing, looks up no market, swaps nothing
\* and returns success.
C26_NothingNegativeNothingSettled ==
    (Called("settle_bankruptcy") /\ \A i \in Coll : collateral[i] >= 0) =>
        /\ sent = << >>
        /\ signature_results = << >>
        /\ lookups = << >>
        /\ swaps = << >>
        /\ pc \in {"settle", "done"}
        /\ pc = "done" => result = "Ok"

\* C26 witness: the bankruptcy settler returned success for an account whose
\* balances are all zero.
C26_Witness ==
    /\ invoked = <<"settle_bankruptcy">>
    /\ \A i \in Coll : collateral[i] = 0
    /\ pc = "done"
    /\ result = "Ok"
    /\ sent = << >>

(***************************************************************************)
(* C27                                                                     *)
(***************************************************************************)
\* C27: when the bankruptcy settler has returned, for every negative-balance
\* index the settle-bankruptcy instruction was submitted, the registration of
\* the index was looked up, and the rebalancing swap was attempted exactly when
\* a market and a vault signer are registered for it, whatever the outcome of
\* the submission.
C27_SwapIffRegisteredPerIndex ==
    (Called("settle_bankruptcy") /\ pc = "done") =>
        \A i \in Coll :
            collateral[i] < 0 =>
                /\ \E k \in 1 .. Len(sent) : sent[k].ixs[1].target = i
                /\ LookedUp(i)
                /\ SwapsOf(i) = IF RegisteredFor(i) THEN 1 ELSE 0

(***************************************************************************)
(* C28                                                                     *)
(***************************************************************************)
StrictlyIncreasing(seq) ==
    \A a \in 1 .. Len(seq) : \A b \in 1 .. Len(seq) : a < b => seq[a] < seq[b]

\* C28: a market's funding time is inserted only when it is strictly greater
\* than the time recorded for the market, and the time is recorded only after
\* a successful insert: the recorded time never decreases, it is the last time
\* inserted, and each market's inserted times are strictly increasing.
C28_FundingTimesIncrease ==
    /\ [](\A m \in Mkt :
            /\ StrictlyIncreasing(inserted[m])
            /\ \A k \in 1 .. Len(inserted[m]) : inserted[m][k] > 0
            /\ prev[m] = IF inserted[m] = << >>
                         THEN 0
                         ELSE inserted[m][Len(inserted[m])])
    /\ [][\A m \in Mkt :
            /\ prev'[m] >= prev[m]
            /\ prev'[m] # prev[m] => inserted'[m] # inserted[m]
            /\ inserted'[m] # inserted[m] =>
                    /\ res' = "Ok"
                    /\ prev'[m] > prev[m]
                    /\ inserted'[m] = Append(inserted[m], prev'[m])]_vars

\* C28 witness: market 0 was inserted for the funding times 1 and 2, market 1
\* never, and the last insert failed.
C28_Witness ==
    /\ inserted[0] = <<1, 2>>
    /\ prev[0] = 2
    /\ inserted[1] = << >>
    /\ prev[1] = 0
    /\ res = "Err"

(***************************************************************************)
(* C29                                                                     *)
(***************************************************************************)
\* C29: whenever the spot liquidator is called the quote index differs from the
\* asset index, the quote's value is at least the dust threshold, and the
\* maximum collateral value is not zero (the index-0 fallback is not in effect).
C29_SpotQuoteIsRealCollateral ==
    Called("liquidate_spot_position") =>
        /\ DUST_THRESHOLD > 0
        /\ quote_idx # col_index
        /\ Value(quote_idx) >= DUST_THRESHOLD
        /\ ~MaximumIsZero
        /\ \A k \in 1 .. Len(sent) :
                /\ sent[k].ixs[1].quote # sent[k].ixs[1].target
                /\ Value(sent[k].ixs[1].quote) >= DUST_THRESHOLD

\* C29 witness: values [100, -100]: asset 1 is liquidated against quote 0, which
\* holds the maximum.
C29_Witness ==
    /\ invoked = <<"liquidate_spot_position">>
    /\ Value(0) = 100
    /\ Value(1) = -100
    /\ Len(sent) >= 1
    /\ sent[1].ixs[1].target = 1
    /\ sent[1].ixs[1].quote = 0

IsLastBest(i) == IsBest(i) /\ \A j \in Coll : IsBest(j) => j <= i
IsLastLargest(m) == IsLargest(m) /\ \A k \in Mkt : IsLargest(k) => k <= m
IsFirstWorst(i) == IsWorst(i) /\ \A j \in Coll : IsWorst(j) => i <= j

\* The ClosePosition instructions of a submission carry liqee_was_long.
LongFlags(sub) ==
    {sub.ixs[j].arg : j \in {n \in 1 .. Len(sub.ixs) : sub.ixs[n].name = "ClosePosition"}}

\* C31: among positions sharing the maximum absolute notional the highest
\* market is the perp target, and among collaterals sharing a non-zero maximum
\* value the highest index is the best quote, whereas the worst collateral is
\* the lowest index of minimum value; the perp liquidator acts on that market,
\* with liqee_was_long true exactly when the selected notional is positive.
C31_LastMaximumWins ==
    Triaged =>
        /\ PositionExists => IsLastLargest(position_index)
        /\ ~MaximumIsZero => IsLastBest(quote_idx)
        /\ IsFirstWorst(col_index)
        /\ Called("liquidate_spot_position") =>
                \A k \in 1 .. Len(sent) : IsLastBest(sent[k].ixs[1].quote)
        /\ Called("liquidate_perp_position") =>
                \A k \in 1 .. Len(sent) :
                    /\ \A j \in 1 .. Len(sent[k].ixs) :
                            IsLastLargest(sent[k].ixs[j].target)
                    /\ LongFlags(sent[k]) \subseteq
                            {IF Notional(position_index) > 0 THEN 1 ELSE 0}

\* C31 witness: notionals [40, -40] and values [100, 100]: market 1 is
\* liquidated as a short position with its rebalance instruction, index 1 is
\* the best quote and index 0 the worst collateral.
C31_Witness ==
    /\ Triaged
    /\ Notional(0) = 40
    /\ Notional(1) = -40
    /\ Value(0) = 100
    /\ Value(1) = 100
    /\ invoked = <<"liquidate_perp_position">>
    /\ Len(sent) >= 1
    /\ sent[1].ixs[2].target = 1
    /\ LongFlags(sent[1]) = {0}
    /\ quote_idx = 1
    /\ col_index = 0

(***************************************************************************)
(* C32                                                                     *)
(***************************************************************************)
\* C32: a failed insert leaves every market's recorded funding time as it was,
\* so every entry of the failed batch passes the filter again, and the next
\* tick selects every market of the failed batch whose funding time has not
\* gone back; a market's recorded time changes only in a tick whose batch
\* holds the market and whose insert succeeded, to the time inserted.
C32_FailedBatchRetried ==
    /\ [](res = "Err" =>
            /\ to_update # {}
            /\ \A m \in to_update : NeedsUpdate(last_updated[m], prev[m]))
    /\ [][/\ res' = "Err" => (prev' = prev /\ inserted' = inserted)
          /\ res = "Err" =>
                \A m \in to_update :
                    last_updated'[m] >= last_updated[m] => m \in to_update'
          /\ \A m \in Mkt :
                prev'[m] # prev[m] =>
                    /\ res' = "Ok"
                    /\ m \in to_update'
                    /\ prev'[m] = last_updated'[m]
                    /\ inserted'[m] = Append(inserted[m], last_updated'[m])]_vars

\* C32 witness: after 1 was inserted for market 0, the batch of market 0 at
\* time 2 and market 1 at time 2 failed: the recorded times are still 1 and 0.
C32_Witness ==
    /\ res = "Err"
    /\ to_update = {0, 1}
    /\ last_updated[0] = 2
    /\ last_updated[1] = 2
    /\ prev[0] = 1
    /\ prev[1] = 0
    /\ inserted[0] = <<1>>
    /\ inserted[1] = << >>
====
